---- MODULE Spec2Model ----
(***************************************************************************)
(* Model of the jsonata-rs evaluation core (src/src/evaluator/mod.rs) and  *)
(* of its operator table (src/src/symbol.rs).                              *)
(*                                                                         *)
(* The evaluator is a recursive function evaluate(node, input, frame); it  *)
(* is modelled by RECURSIVE operators that return the result together with *)
(* the frame chain as the call left it.  The state machine applies it to   *)
(* expressions and inputs drawn from bounded sets.                         *)
(*                                                                         *)
(* Numbers are f64 in the source.  The model carries a number as an        *)
(* integer count of 1/Scale units, so that fractional literals (a filter   *)
(* predicate such as 1.5) and floor() are representable.                   *)
(* Strings are sequences of character codes, compared as Rust compares     *)
(* String values (lexicographically).                                      *)
(***************************************************************************)
EXTENDS Integers, Sequences, FiniteSets, TLC

VARIABLES
  frames,   \* the frame chain evaluate is called with: the root frame
  pre,      \* the frame chain before the last call
  node,     \* the node of the last call
  input,    \* the input value of the last call
  hash,     \* the HashMap iteration order of the last call
  raw,      \* the last call's result before the closing normalization
  out,      \* the last call's result
  op,       \* which family of expressions the last call evaluated
  tokens,   \* the token stream given to the parser
  tree      \* the parser's result

vars == <<frames, pre, node, input, hash, raw, out, op, tokens, tree>>

\* Units per 1.0 in the fixed-point rendering of numbers.
Scale == 2
\* Largest magnitude of the number literals of the generated expressions.
MaxNum == 5
\* The number of groups whose HashMap iteration order is drawn freely.
MaxGroups == 3
\* Longest array a numeric predicate is applied to; the predicates index
\* one place beyond it on either side.
MaxLen == 3

-----------------------------------------------------------------------------
(* Value model (evaluator/value.rs, not in src/: from the data model)      *)

Undefined == [t |-> "undef", b |-> FALSE, n |-> 0, s |-> <<>>, items |-> <<>>, keys |-> <<>>, seq |-> FALSE, cons |-> FALSE, keep |-> FALSE]

Null == [Undefined EXCEPT !.t = "null"]

Bool(b) == [Undefined EXCEPT !.t = "bool", !.b = b]

Number(n) == [Undefined EXCEPT !.t = "num", !.n = n]

String(s) == [Undefined EXCEPT !.t = "str", !.s = s]

Array(items, seq, cons, keep) == [Undefined EXCEPT !.t = "arr", !.items = items, !.seq = seq, !.cons = cons, !.keep = keep]

Object(keys, items) == [Undefined EXCEPT !.t = "obj", !.keys = keys, !.items = items]

new_object == Object(<<>>, <<>>)

is_undefined(v) == v.t = "undef"

is_number(v) == v.t = "num"

is_string(v) == v.t = "str"

is_array(v) == v.t = "arr"

\* Value::insert on an object: a fresh key is appended, an existing key is
\* overwritten in place (keys unique, first-insertion order preserved).
insert(obj, key, value) ==
  IF \E i \in 1..Len(obj.keys) : obj.keys[i] = key
  THEN [obj EXCEPT !.items = [i \in 1..Len(obj.keys) |-> IF obj.keys[i] = key THEN value ELSE obj.items[i]]]
  ELSE [obj EXCEPT !.keys = Append(obj.keys, key), !.items = Append(obj.items, value)]

\* Value::push on an array.
push(arr, item) == [arr EXCEPT !.items = Append(arr.items, item)]

\* The Debug rendering format!("{:#?}", value) an error carries.
Debug(v) == [dbg |-> v]

\* The text of a string an error carries as it is (key.to_owned()).
Raw(s) == [dbg |-> String(s)]

\* The whole number i as a model number.
Int2Num(i) == i * Scale

\* f64::floor of a model number, as an integer.
Floor(n) == n \div Scale

RECURSIVE LexLess(_, _)
\* String < String: lexicographic on the character codes.
LexLess(a, b) ==
  IF Len(b) = 0 THEN FALSE
  ELSE IF Len(a) = 0 THEN TRUE
  ELSE IF a[1] # b[1] THEN a[1] < b[1]
  ELSE LexLess(Tail(a), Tail(b))

RECURSIVE ValueEq(_, _)
\* Value == Value: same variant and same contents.
ValueEq(a, b) ==
  IF a.t # b.t THEN FALSE
  ELSE CASE a.t = "bool" -> a.b = b.b
         [] a.t = "num" -> a.n = b.n
         [] a.t = "str" -> a.s = b.s
         [] a.t = "arr" -> /\ Len(a.items) = Len(b.items)
                           /\ \A i \in 1..Len(a.items) : ValueEq(a.items[i], b.items[i])
         [] a.t = "obj" -> /\ Len(a.keys) = Len(b.keys)
                           /\ \A i \in 1..Len(a.keys) :
                                \E j \in 1..Len(b.keys) : b.keys[j] = a.keys[i] /\ ValueEq(a.items[i], b.items[j])
         [] OTHER -> TRUE

-----------------------------------------------------------------------------
(* External utilities (crate::functions, not in src/: from their contract) *)

RECURSIVE boolean(_)
\* Boolean coercion.
boolean(v) ==
  CASE v.t = "undef" -> FALSE
    [] v.t = "null" -> FALSE
    [] v.t = "bool" -> v.b
    [] v.t = "num" -> v.n # 0
    [] v.t = "str" -> Len(v.s) > 0
    [] v.t = "arr" -> \E i \in 1..Len(v.items) : boolean(v.items[i])
    [] OTHER -> Len(v.keys) > 0

\* The items a value contributes to a one-level flattening.
ItemsOf(v) == IF is_array(v) THEN v.items ELSE <<v>>

\* Sequence append/merge: the one-level-flattened concatenation, in order,
\* as an engine-synthesized sequence.
append(acc, item) == Array(ItemsOf(acc) \o ItemsOf(item), TRUE, FALSE, FALSE)

-----------------------------------------------------------------------------
(* Frames (evaluator/frame.rs, not in src/: from the data model).          *)
(* A frame chain is a sequence of maps name -> Value: the root frame first, *)
(* the current frame last; the parent of frame i is frame i - 1.           *)

EmptyFrame == [k \in {} |-> Undefined]

\* Frame::new_with_parent
new_with_parent(fr) == Append(fr, EmptyFrame)

\* Frame::bind: the binding is written into the current frame's own map.
bind(fr, name, value) ==
  [fr EXCEPT ![Len(fr)] = [k \in (DOMAIN fr[Len(fr)]) \cup {name} |-> IF k = name THEN value ELSE fr[Len(fr)][k]]]

RECURSIVE lookup_from(_, _, _)
\* Frame::lookup from frame d: self, then parent, ... then root; first hit wins.
\* The result is <<found, value>>.
lookup_from(fr, d, name) ==
  IF d = 0 THEN <<FALSE, Undefined>>
  ELSE IF name \in DOMAIN fr[d] THEN <<TRUE, fr[d][name]>>
  ELSE lookup_from(fr, d - 1, name)

lookup(fr, name) == lookup_from(fr, Len(fr), name)

-----------------------------------------------------------------------------
(* AST nodes (parser::ast, not in src/: the node kinds of evaluate's match) *)

Leaf(kind) == [kind |-> kind, op |-> "", name |-> "", n |-> 0, s |-> <<>>, b |-> FALSE, kids |-> <<>>, preds |-> <<>>, keep_array |-> FALSE, cons_array |-> FALSE]

NNull == Leaf("Null")

NBool(b) == [Leaf("Bool") EXCEPT !.b = b]

NString(s) == [Leaf("String") EXCEPT !.s = s]

NNumber(n) == [Leaf("Number") EXCEPT !.n = n]

NVar(name) == [Leaf("Var") EXCEPT !.name = name]

NName(name) == [Leaf("Name") EXCEPT !.name = name]

NBlock(exprs) == [Leaf("Block") EXCEPT !.kids = exprs]

NMinus(value) == [Leaf("Unary") EXCEPT !.op = "Minus", !.kids = <<value>>]

NArray(elems) == [Leaf("Unary") EXCEPT !.op = "ArrayConstructor", !.kids = elems, !.cons_array = TRUE]

\* An object constructor; kids holds the pairs flattened: key1, value1, key2, ...
NObject(pairs) == [Leaf("Unary") EXCEPT !.op = "ObjectConstructor", !.kids = pairs]

NBinary(o, lhs, rhs) == [Leaf("Binary") EXCEPT !.op = o, !.kids = <<lhs, rhs>>]

\* A ternary; kids is <<cond, truthy>> or <<cond, truthy, falsy>>.
NTernary(kids) == [Leaf("Ternary") EXCEPT !.kids = kids]

WithPreds(n, preds) == [n EXCEPT !.preds = preds]

WithKeep(n) == [n EXCEPT !.keep_array = TRUE]

-----------------------------------------------------------------------------
(* Results: Result<Value> together with the frame chain the call leaves.   *)

Ok(v, fr) == [ok |-> TRUE, val |-> v, err |-> "", eop |-> "", vals |-> <<>>, fr |-> fr]

\* An Err(Box<error>): its code, the operator it names and the values it carries.
Err(code, eop, vals, fr) == [ok |-> FALSE, val |-> Undefined, err |-> code, eop |-> eop, vals |-> vals, fr |-> fr]

\* unimplemented!(): the evaluation panics.
Panic(fr) == Err("panic", "", <<>>, fr)

ArithOps == {"Add", "Subtract", "Multiply", "Divide", "Modulus"}

RelOps == {"LessThan", "LessThanEqual", "GreaterThan", "GreaterThanEqual"}

EqOps == {"Equal", "NotEqual"}

-----------------------------------------------------------------------------
(* The evaluator                                                           *)

\* HashMap<String, Group> keeps no insertion order: groups.keys() may visit
\* the groups in any order.  A hash order h is a permutation of
\* 1..Len(h); the n-th inserted group is visited where n stands in h (groups
\* beyond Len(h) follow in insertion order).
RECURSIVE Tail_from(_, _)
Tail_from(lo, hi) == IF lo > hi THEN <<>> ELSE <<lo>> \o Tail_from(lo + 1, hi)

keys(h, n) == SelectSeq(h, LAMBDA i : i <= n) \o Tail_from(Len(h) + 1, n)

\* The position of a key among the groups, 0 when no group has it
\* (groups.contains_key).
RECURSIVE group_of(_, _, _)
group_of(groups, i, key) ==
  IF i > Len(groups) THEN 0
  ELSE IF groups[i].key = key THEN i
  ELSE group_of(groups, i + 1, key)

\* f64 arithmetic on model numbers.  Add, Subtract and Multiply are exact
\* when an operand is a whole number; Divide and Modulus are defined on
\* the positive divisors only (IEEE infinities and NaN are outside the
\* modelled range).
Arith(o, l, r) ==
  CASE o = "Add" -> l + r
    [] o = "Subtract" -> l - r
    [] o = "Multiply" -> (l * r) \div Scale
    [] o = "Divide" /\ r > 0 -> (l * Scale) \div r
    [] o = "Modulus" /\ r > 0 /\ l >= 0 -> l % r

Compare(o, less, equal) ==
  CASE o = "LessThan" -> less
    [] o = "LessThanEqual" -> less \/ equal
    [] o = "GreaterThan" -> ~less /\ ~equal
    [] o = "GreaterThanEqual" -> ~less

\* A normalization that overlooks the node's keep_array flag.
Normalize_ignoring_keep_array(keep_array, result) ==
  IF is_array(result) /\ result.seq
  THEN IF Len(result.items) = 0 THEN Undefined
       ELSE IF Len(result.items) = 1 THEN (IF result.keep THEN result ELSE result.items[1])
       ELSE result
  ELSE result

\* The post-evaluation sequence normalization at the end of evaluate.
Normalize(keep_array, result) ==
  IF is_array(result) /\ result.seq
  THEN LET r == IF keep_array THEN [result EXCEPT !.keep = TRUE] ELSE result
       IN IF Len(r.items) = 0 THEN Undefined
          ELSE IF Len(r.items) = 1 THEN (IF r.keep THEN r ELSE r.items[1])
          ELSE r
  ELSE result

evaluate_filter(pred, inp, fr) ==
  LET results == Array(<<>>, TRUE, FALSE, FALSE)
  IN IF pred.kind = "Number"
     THEN LET floored == Floor(pred.n)
              length == IF is_array(inp) THEN Len(inp.items) ELSE 1
              index == IF floored < 0 THEN floored + length ELSE floored
              \* items.get(index as usize): a negative index wraps to a
              \* huge usize, which is out of range.
              found == IF is_array(inp) THEN index >= 0 /\ index < Len(inp.items) ELSE TRUE
              item == IF is_array(inp) THEN inp.items[index + 1] ELSE inp
          IN IF found
             THEN Ok(IF is_array(item) THEN item ELSE push(results, item), fr)
             ELSE Ok(results, fr)
     ELSE Panic(fr)

\* + - * / %: both operands must be numbers.
arithmetic_op(o, lhs, rhs, fr) ==
  IF ~is_number(lhs) THEN Err("T2001", o, <<>>, fr)
  ELSE IF ~is_number(rhs) THEN Err("T2002", o, <<>>, fr)
  ELSE Ok(Number(Arith(o, lhs.n, rhs.n)), fr)

\* < <= > >= that compares a number with a string by the string's length.
relational_op_coercing(o, lhs, rhs, fr) ==
  IF ~((is_number(lhs) \/ is_string(lhs)) /\ (is_number(rhs) \/ is_string(rhs)))
  THEN Err("T2010", o, <<>>, fr)
  ELSE IF is_string(lhs) /\ is_string(rhs)
  THEN Ok(Bool(Compare(o, LexLess(lhs.s, rhs.s), lhs.s = rhs.s)), fr)
  ELSE LET l == IF is_number(lhs) THEN lhs.n ELSE Int2Num(Len(lhs.s))
           r == IF is_number(rhs) THEN rhs.n ELSE Int2Num(Len(rhs.s))
       IN Ok(Bool(Compare(o, l < r, l = r)), fr)

\* < <= > >=
relational_op(o, lhs, rhs, fr) ==
  IF ~((is_number(lhs) \/ is_string(lhs)) /\ (is_number(rhs) \/ is_string(rhs)))
  THEN Err("T2010", o, <<>>, fr)
  ELSE IF is_number(lhs) /\ is_number(rhs)
  THEN Ok(Bool(Compare(o, lhs.n < rhs.n, lhs.n = rhs.n)), fr)
  ELSE IF is_string(lhs) /\ is_string(rhs)
  THEN Ok(Bool(Compare(o, LexLess(lhs.s, rhs.s), lhs.s = rhs.s)), fr)
  ELSE Err("T2009", o, <<Debug(lhs), Debug(rhs)>>, fr)

\* = != without the test for an Undefined operand.
equality_op_no_undefined(o, lhs, rhs, fr) ==
  IF o = "Equal" THEN Ok(Bool(ValueEq(lhs, rhs)), fr)
  ELSE Ok(Bool(~ValueEq(lhs, rhs)), fr)

\* = !=
equality_op(o, lhs, rhs, fr) ==
  IF is_undefined(lhs) \/ is_undefined(rhs) THEN Ok(Bool(FALSE), fr)
  ELSE IF o = "Equal" THEN Ok(Bool(ValueEq(lhs, rhs)), fr)
  ELSE Ok(Bool(~ValueEq(lhs, rhs)), fr)

\* The operator applied to the two operand values (the match on op).
binary_apply(o, lhs, rhs, fr) ==
  CASE o \in ArithOps -> arithmetic_op(o, lhs, rhs, fr)
    [] o \in RelOps -> relational_op(o, lhs, rhs, fr)
    [] o \in EqOps -> equality_op(o, lhs, rhs, fr)
    [] OTHER -> Panic(fr)

RECURSIVE evaluate(_, _, _, _)
RECURSIVE evaluate_block(_, _, _, _)
RECURSIVE block_exprs(_, _, _, _, _)
RECURSIVE evaluate_ternary(_, _, _, _)
RECURSIVE evaluate_unary_op(_, _, _, _)
RECURSIVE array_items(_, _, _, _, _, _)
RECURSIVE evaluate_group_expression(_, _, _, _)
RECURSIVE evaluate_group_item(_, _, _, _, _, _)
RECURSIVE group_items(_, _, _, _, _, _)
RECURSIVE group_values(_, _, _, _, _, _, _)
RECURSIVE evaluate_binary_op(_, _, _, _)

(* Where the source binds the result of a call and goes on with it          *)
(* (let r = evaluate(..)?; ...), the model hands the result to the operator *)
(* that models the rest of the function.                                    *)

evaluate_var(name, inp, fr) ==
  IF name = "" THEN Panic(fr)
  ELSE IF lookup(fr, name)[1] THEN Ok(lookup(fr, name)[2], fr)
  ELSE Ok(Undefined, fr)

\* result = evaluate(expr, &result, frame.clone())?, then the next expression.
block_next(exprs, i, r, h) ==
  IF r.ok THEN block_exprs(exprs, i + 1, r.val, r.fr, h) ELSE r

\* The loop of evaluate_block: each result is the input of the next.
block_exprs(exprs, i, result, fr, h) ==
  IF i > Len(exprs) THEN Ok(result, fr)
  ELSE block_next(exprs, i, evaluate(exprs[i], result, fr, h), h)

\* The block's frame is dropped when evaluate_block returns, with a value or
\* with an error: the chain is again d frames long.
drop_frame(d, r) == [r EXCEPT !.fr = SubSeq(r.fr, 1, d)]

\* evaluate_block that opens no child frame: the expressions run in the
\* caller's frame.
evaluate_block_in_parent(exprs, inp, fr, h) ==
  IF Len(exprs) = 0 THEN Ok(Undefined, fr) ELSE block_exprs(exprs, 1, inp, fr, h)

evaluate_block(exprs, inp, fr, h) ==
  drop_frame(Len(fr),
    IF Len(exprs) = 0 THEN Ok(Undefined, new_with_parent(fr))
    ELSE block_exprs(exprs, 1, inp, new_with_parent(fr), h))

\* The branches of evaluate_ternary, handed the condition's value as input.
ternary_branch_cond_input(kids, inp, cond, h) ==
  IF ~cond.ok THEN cond
  ELSE IF boolean(cond.val) THEN evaluate(kids[2], cond.val, cond.fr, h)
  ELSE IF Len(kids) > 2 THEN evaluate(kids[3], cond.val, cond.fr, h)
  ELSE Ok(Undefined, cond.fr)

\* evaluate_ternary once the condition is evaluated.
ternary_branch(kids, inp, cond, h) ==
  IF ~cond.ok THEN cond
  ELSE IF boolean(cond.val) THEN evaluate(kids[2], inp, cond.fr, h)
  ELSE IF Len(kids) > 2 THEN evaluate(kids[3], inp, cond.fr, h)
  ELSE Ok(Undefined, cond.fr)

evaluate_ternary(kids, inp, fr, h) ==
  ternary_branch(kids, inp, evaluate(kids[1], inp, fr, h), h)

\* let value = evaluate(item, input, frame.clone())?; result.push(value);
array_next(array, i, result, inp, r, h) ==
  IF r.ok THEN array_items(array, i + 1, push(result, r.val), inp, r.fr, h) ELSE r

array_items(array, i, result, inp, fr, h) ==
  IF i > Len(array) THEN Ok(result, fr)
  ELSE array_next(array, i, result, inp, evaluate(array[i], inp, fr, h), h)

\* UnaryOp::Minus once the operand is evaluated.
negate(r) ==
  IF ~r.ok THEN r
  ELSE IF is_undefined(r.val) THEN Ok(Undefined, r.fr)
  ELSE IF is_number(r.val) THEN Ok(Number(0 - r.val.n), r.fr)
  ELSE Err("D1002", "", <<Debug(r.val)>>, r.fr)

evaluate_unary_op(n, inp, fr, h) ==
  CASE n.op = "Minus" -> negate(evaluate(n.kids[1], inp, fr, h))
    [] n.op = "ArrayConstructor" ->
         array_items(n.kids, 1, Array(<<>>, FALSE, n.cons_array, FALSE), inp, fr, h)
    [] n.op = "ObjectConstructor" ->
         evaluate_group_expression(n.kids, inp, fr, h)

\* The outcome of the closure evaluate_group_item: its Result and the
\* groups (in insertion order) it leaves.
Grouped(r, groups) == [r |-> r, groups |-> groups]

\* The body of the closure's loop once pair i's key is evaluated; g is the
\* place of the key among the groups, 0 when it is new.
group_key(object, i, item, groups, key, g, h) ==
  IF ~key.ok THEN Grouped(key, groups)
  ELSE IF ~is_string(key.val) THEN Grouped(Err("T1003", "", <<Debug(key.val)>>, key.fr), groups)
  ELSE IF g # 0
  THEN IF groups[g].index = i
       THEN Grouped(Err("D1009", "", <<Raw(key.val.s)>>, key.fr), groups)
       ELSE evaluate_group_item(object, i + 1, item,
              [groups EXCEPT ![g].data = append(groups[g].data, item)], key.fr, h)
  ELSE evaluate_group_item(object, i + 1, item,
         Append(groups, [key |-> key.val.s, data |-> item, index |-> i]), key.fr, h)

\* The key's place among the groups, for a key that is a string.
key_place(groups, key) ==
  IF key.ok /\ is_string(key.val) THEN group_of(groups, 1, key.val.s) ELSE 0

\* group_key for the key just evaluated.
group_pair(object, i, item, groups, key, h) ==
  group_key(object, i, item, groups, key, key_place(groups, key), h)

\* The closure evaluate_group_item, from pair i on (pair i is object[2i-1],
\* object[2i]).
evaluate_group_item(object, i, item, groups, fr, h) ==
  IF 2 * i > Len(object) THEN Grouped(Ok(Undefined, fr), groups)
  ELSE group_pair(object, i, item, groups, evaluate(object[2 * i - 1], item, fr, h), h)

\* evaluate_group_item(item)?, then the next item.
group_items_next(object, items, j, g, h) ==
  IF g.r.ok THEN group_items(object, items, j + 1, g.groups, g.r.fr, h) ELSE g

\* for item in input.iter() { evaluate_group_item(item)?; }
group_items(object, items, j, groups, fr, h) ==
  IF j > Len(items) THEN Grouped(Ok(Undefined, fr), groups)
  ELSE group_items_next(object, items, j, evaluate_group_item(object, 1, items[j], groups, fr, h), h)

\* The body of the closing loop with every value inserted, Undefined or not.
group_value_insert_all(object, groups, order, j, result, value, h) ==
  IF ~value.ok THEN value
  ELSE group_values(object, groups, order, j + 1,
         insert(result, groups[order[j]].key, value.val), value.fr, h)

\* The body of the closing loop once the group's value is evaluated.
group_value(object, groups, order, j, result, value, h) ==
  IF ~value.ok THEN value
  ELSE group_values(object, groups, order, j + 1,
         IF ~is_undefined(value.val) THEN insert(result, groups[order[j]].key, value.val) ELSE result,
         value.fr, h)

\* for key in groups.keys(): the value of each group, visited in order.
group_values(object, groups, order, j, result, fr, h) ==
  IF j > Len(order) THEN Ok(result, fr)
  ELSE group_value(object, groups, order, j, result,
         evaluate(object[2 * groups[order[j]].index], groups[order[j]].data, fr, h), h)

\* The closing loop, once the items are grouped.
group_result(object, g, h) ==
  IF ~g.r.ok THEN g.r
  ELSE group_values(object, g.groups, keys(h, Len(g.groups)), 1, new_object, g.r.fr, h)

evaluate_group_expression(object, inp, fr, h) ==
  group_result(object,
    IF ~is_array(inp) THEN evaluate_group_item(object, 1, inp, <<>>, fr, h)
    ELSE IF Len(inp.items) = 0 THEN evaluate_group_item(object, 1, Undefined, <<>>, fr, h)
    ELSE group_items(object, inp.items, 1, <<>>, fr, h),
    h)

\* evaluate_binary_op with the operands evaluated left to right: the value
\* of the right operand, once the left one has its value.
left_first_rhs(o, lhs, rhs) ==
  IF ~rhs.ok THEN rhs ELSE binary_apply(o, lhs.val, rhs.val, rhs.fr)

\* evaluate_binary_op with the operands evaluated left to right: the left
\* operand's value, then the right operand.
left_first_lhs(n, inp, lhs, h) ==
  IF ~lhs.ok THEN lhs ELSE left_first_rhs(n.op, lhs, evaluate(n.kids[2], inp, lhs.fr, h))

\* evaluate_binary_op once both operands are evaluated.
binary_lhs(o, lhs, rhs) ==
  IF ~lhs.ok THEN lhs ELSE binary_apply(o, lhs.val, rhs.val, lhs.fr)

\* evaluate_binary_op once the right operand is evaluated.
binary_rhs(n, inp, rhs, h) ==
  IF ~rhs.ok THEN rhs
  ELSE IF n.op = "Bind"
  THEN Ok(inp, IF n.kids[1].kind = "Var" THEN bind(rhs.fr, n.kids[1].name, rhs.val) ELSE rhs.fr)
  ELSE binary_lhs(n.op, evaluate(n.kids[1], inp, rhs.fr, h), rhs)

\* evaluate_binary_op that evaluates the left operand before the right one.
evaluate_binary_op_left_first(n, inp, fr, h) ==
  left_first_lhs(n, inp, evaluate(n.kids[1], inp, fr, h), h)

evaluate_binary_op(n, inp, fr, h) ==
  binary_rhs(n, inp, evaluate(n.kids[2], inp, fr, h), h)

\* The match on node.kind at the head of evaluate.
evaluate_kind(n, inp, fr, h) ==
  CASE n.kind = "Null" -> Ok(Null, fr)
    [] n.kind = "Bool" -> Ok(Bool(n.b), fr)
    [] n.kind = "String" -> Ok(String(n.s), fr)
    [] n.kind = "Number" -> Ok(Number(n.n), fr)
    [] n.kind = "Block" -> evaluate_block(n.kids, inp, fr, h)
    [] n.kind = "Unary" -> evaluate_unary_op(n, inp, fr, h)
    [] n.kind = "Binary" -> evaluate_binary_op(n, inp, fr, h)
    [] n.kind = "Var" -> evaluate_var(n.name, inp, fr)
    [] n.kind = "Ternary" -> evaluate_ternary(n.kids, inp, fr, h)
    [] OTHER -> Panic(fr)

RECURSIVE apply_filters(_, _, _, _)
\* result = evaluate_filter(filter, &result, frame.clone())?, then the next.
filters_next(filters, i, r) ==
  IF r.ok THEN apply_filters(filters, i + 1, r.val, r.fr) ELSE r

\* for filter in filters { result = evaluate_filter(filter, &result, frame)?; }
apply_filters(filters, i, result, fr) ==
  IF i > Len(filters) THEN Ok(result, fr)
  ELSE filters_next(filters, i, evaluate_filter(filters[i], result, fr))

\* The predicates of the node applied to the result of its kind.
filtered(n, r) == IF r.ok THEN apply_filters(n.preds, 1, r.val, r.fr) ELSE r

\* evaluate up to, and without, the closing normalization.
evaluate_raw(n, inp, fr, h) == filtered(n, evaluate_kind(n, inp, fr, h))

\* The closing normalization applied to the filtered result.
normalized(n, r) == IF r.ok THEN [r EXCEPT !.val = Normalize(n.keep_array, r.val)] ELSE r

evaluate(n, inp, fr, h) == normalized(n, evaluate_raw(n, inp, fr, h))

-----------------------------------------------------------------------------
(* The operator table and the parser (symbol.rs; parser.rs is not in src/) *)

\* A token: its kind and, for a literal or an identifier, its value.
Token(kind) == [kind |-> kind, n |-> 0, name |-> ""]

NumberToken(n) == [Token("Number") EXCEPT !.n = n]

VariableToken(name) == [Token("Variable") EXCEPT !.name = name]

\* A node of the parser's tree: Node::<kind> with its operands.
PNode(kind, kids) == [Leaf(kind) EXCEPT !.kids = kids]

\* Symbol::lbp with the multiplicative operators at the additive power.
lbp_flat_arithmetic(kind) ==
  CASE kind \in {"Range", "Question", "Pipe"} -> 20
    [] kind = "Assignment" -> 10
    [] kind \in {"NotEqual", "GreaterEqual", "LessEqual", "ChainFunction", "In", "Equ", "RightCaret", "LeftCaret", "Pow"} -> 40
    [] kind = "DescendantWildcard" -> 60
    [] kind = "And" -> 30
    [] kind = "Or" -> 25
    [] kind = "Period" -> 75
    [] kind \in {"LeftBracket", "LeftParen", "At", "Hash", "SemiColon", "Colon"} -> 80
    [] kind = "LeftBrace" -> 70
    [] kind \in {"Add", "Sub", "Ampersand", "Mul", "Div", "Mod"} -> 50
    [] OTHER -> 0

\* Symbol::lbp: the left binding power of a token.
lbp(kind) ==
  CASE kind \in {"Range", "Question", "Pipe"} -> 20
    [] kind = "Assignment" -> 10
    [] kind \in {"NotEqual", "GreaterEqual", "LessEqual", "ChainFunction", "In", "Equ", "RightCaret", "LeftCaret", "Pow"} -> 40
    [] kind \in {"DescendantWildcard", "Mul", "Div", "Mod"} -> 60
    [] kind = "And" -> 30
    [] kind = "Or" -> 25
    [] kind = "Period" -> 75
    [] kind \in {"LeftBracket", "LeftParen", "At", "Hash", "SemiColon", "Colon"} -> 80
    [] kind = "LeftBrace" -> 70
    [] kind \in {"Add", "Sub", "Ampersand"} -> 50
    [] OTHER -> 0

\* The binary node each infix rule of Symbol::led builds.
LedNode ==
  [Period |-> "PathSeparator", Add |-> "Add", Sub |-> "Subtract", Mul |-> "Multiply",
   Div |-> "Divide", Mod |-> "Modulus", Equ |-> "Equal", LeftCaret |-> "LessThan",
   RightCaret |-> "GreaterThan", NotEqual |-> "NotEqual", LessEqual |-> "LessThanEqual",
   GreaterEqual |-> "GreaterThanEqual", Ampersand |-> "Concat", And |-> "And", Or |-> "Or",
   In |-> "In", ChainFunction |-> "Chain"]

\* The power the prefix - parses its operand at.
UnaryMinusPower == 70

\* A parse: the node built and the position of the next token, or a panic.
Parsed(n, pos) == [ok |-> TRUE, node |-> n, pos |-> pos]

ParsePanic(pos) == [ok |-> FALSE, node |-> NNull, pos |-> pos]

RECURSIVE expression(_, _, _)
RECURSIVE expression_loop(_, _, _, _)
RECURSIVE nud(_, _, _)
RECURSIVE led(_, _, _, _)

\* The node a rule builds around the operand it parsed.
wrap(kind, left, e) ==
  IF e.ok THEN Parsed(PNode(kind, left \o <<e.node>>), e.pos) ELSE e

\* Symbol::nud for the token tok, the parser standing at pos after it.
nud(tok, toks, pos) ==
  CASE tok.kind = "Null" -> Parsed(PNode("Null", <<>>), pos)
    [] tok.kind \in {"Boolean", "String"} -> Parsed(PNode(tok.kind, <<>>), pos)
    [] tok.kind = "Number" -> Parsed([PNode("Number", <<>>) EXCEPT !.n = tok.n], pos)
    [] tok.kind = "Name" -> Parsed([PNode("Name", <<>>) EXCEPT !.name = tok.name], pos)
    [] tok.kind = "Variable" -> Parsed([PNode("Variable", <<>>) EXCEPT !.name = tok.name], pos)
    [] tok.kind \in {"And", "Or", "In"} -> Parsed([PNode("Name", <<>>) EXCEPT !.name = "and"], pos)
    [] tok.kind = "Sub" -> wrap("UnaryMinus", <<>>, expression(toks, pos, UnaryMinusPower))
    [] tok.kind = "Mul" -> Parsed(PNode("Wildcard", <<>>), pos)
    [] tok.kind = "DescendantWildcard" -> Parsed(PNode("DescendantWildcard", <<>>), pos)
    [] tok.kind = "Mod" -> Parsed(PNode("Parent", <<>>), pos)
    [] OTHER -> ParsePanic(pos)

\* Symbol::led for the token tok and the left operand already parsed.
led(tok, toks, pos, left) ==
  IF tok.kind \in DOMAIN LedNode
  THEN wrap(LedNode[tok.kind], <<left>>, expression(toks, pos, lbp(tok.kind)))
  ELSE ParsePanic(pos)

\* The loop of Parser::expression once an infix rule has returned.
loop_next(toks, rbp, l) ==
  IF l.ok THEN expression_loop(toks, l.pos, rbp, l.node) ELSE l

\* while the next token's lbp exceeds rbp: consume it and apply its infix
\* rule to the left node.
expression_loop(toks, pos, rbp, left) ==
  IF lbp(toks[pos].kind) > rbp
  THEN loop_next(toks, rbp, led(toks[pos], toks, pos + 1, left))
  ELSE Parsed(left, pos)

\* Parser::expression(rbp): read the next token, apply its prefix rule, then
\* extend the left node while the next token binds tighter than rbp.
expression(toks, pos, rbp) ==
  loop_next(toks, rbp, nud(toks[pos], toks, pos + 1))

RECURSIVE process_ast(_)
\* The tree of the parser as the nodes the evaluator takes.
process_ast(n) ==
  CASE n.kind = "Number" -> NNumber(n.n)
    [] n.kind = "Variable" -> NVar(n.name)
    [] n.kind = "UnaryMinus" -> NMinus(process_ast(n.kids[1]))
    [] Len(n.kids) = 2 -> NBinary(n.kind, process_ast(n.kids[1]), process_ast(n.kids[2]))
    [] OTHER -> [n EXCEPT !.kids = <<>>]

-----------------------------------------------------------------------------
(* The state machine: evaluate applied to generated expressions            *)

StrA == <<1>>

StrB == <<2>>

StrAB == <<1, 2>>

StrX == <<24>>

StrYes == <<25, 5, 19>>

StrNo == <<14, 15>>

\* The number literals: every multiple of 1/Scale up to MaxNum in magnitude.
Nums == (0 - MaxNum * Scale)..(MaxNum * Scale)

One == Int2Num(1)

\* Input documents.
Inputs == {Undefined, String(StrA), Array(<<Number(One), Number(0)>>, FALSE, FALSE, FALSE)}

\* The iteration order of a HashMap the calls that build none are given.
NoHash == <<>>

\* What a call leaves in out: the Result without the frame chain.
Strip(r) == [r EXCEPT !.fr = <<>>]

NoResult == Strip(Ok(Undefined, <<>>))

\* No parse yet.
NoTree == [ok |-> FALSE, node |-> NNull, pos |-> 0]

Init ==
  /\ frames = <<EmptyFrame>>
  /\ pre = <<EmptyFrame>>
  /\ node = NNull
  /\ input = Undefined
  /\ hash = NoHash
  /\ raw = NoResult
  /\ out = NoResult
  /\ op = "init"
  /\ tokens = <<>>
  /\ tree = NoTree

\* The state after a call evaluate(n, i, frame) that returned r, rawr being
\* its result before the closing normalization.
Returned(family, n, i, h, r, rawr) ==
  /\ op' = family
  /\ node' = n
  /\ input' = i
  /\ hash' = h
  /\ pre' = frames
  /\ frames' = r.fr
  /\ raw' = Strip(rawr)
  /\ out' = Strip(r)

\* One call evaluate(n, i, frame) on the root frame.
Call(family, n, i, h) ==
  /\ Returned(family, n, i, h, evaluate(n, i, frames, h), evaluate_raw(n, i, frames, h))
  /\ UNCHANGED <<tokens, tree>>

\* The state before one call evaluate(n, i, frame) with a fresh root frame,
\* for n, i and the hash order drawn from the given sets.
Ready(programs, inputs, orders) ==
  /\ frames = <<EmptyFrame>>
  /\ pre = <<EmptyFrame>>
  /\ node \in programs
  /\ input \in inputs
  /\ hash \in orders
  /\ raw = NoResult
  /\ out = NoResult
  /\ op = "ready"
  /\ tokens = <<>>
  /\ tree = NoTree

\* The call the state is ready for.
Run(family) == op = "ready" /\ Call(family, node, input, hash)

NBind(name, rhs) == NBinary("Bind", NVar(name), rhs)

\* $name := literal at the top level: the binding lands in the root frame.
BindPrograms == {NBind("x", rhs) : rhs \in {NNumber(One), NString(StrA)}}

EvalBind == \E n \in BindPrograms, i \in Inputs : Call("bind", n, i, NoHash)

\* ($x := v; $x + 1)
BlockXPlus1(v) == NBlock(<<NBind("x", NNumber(v)), NBinary("Add", NVar("x"), NNumber(One))>>)

\* (($x := v; $x + 1); $x): $x referenced through the frame that enclosed the block.
BlockThenX(v) == NBlock(<<BlockXPlus1(v), NVar("x")>>)

BlockPrograms == {BlockXPlus1(v) : v \in Nums} \cup {BlockThenX(v) : v \in Nums}

EvalBlock == \E n \in BlockPrograms, i \in Inputs : Call("block", n, i, NoHash)

\* $name, ($name) and ($x := 1; $name)
VarPrograms ==
  {NVar(name) : name \in {"", "x", "y", "z"}}
    \cup {NBlock(<<NVar(name)>>) : name \in {"x", "z"}}
    \cup {NBlock(<<NBind("x", NNumber(0)), NVar(name)>>) : name \in {"x", "y"}}

EvalVar == \E n \in VarPrograms, i \in Inputs : Call("var", n, i, NoHash)

Next == EvalBind \/ EvalBlock \/ EvalVar

Spec == Init /\ [][Next]_vars

\* cond ? truthy : falsy.  Each condition comes with the branch the boolean
\* coercion of its value selects (TRUE: the truthy branch).
CondCases ==
  { <<NVar("u"), FALSE>>, <<NNull, FALSE>>, <<NBool(FALSE), FALSE>>, <<NBool(TRUE), TRUE>>,
    <<NNumber(0), FALSE>>, <<NNumber(One), TRUE>>, <<NNumber(0 - 1), TRUE>>,
    <<NString(<<>>), FALSE>>, <<NString(StrA), TRUE>>,
    <<NArray(<<>>), FALSE>>, <<NArray(<<NNumber(0)>>), FALSE>>,
    <<NArray(<<NNumber(0), NString(StrA)>>), TRUE>>,
    <<NArray(<<NArray(<<>>), NArray(<<NNull, NString(<<>>)>>)>>), FALSE>>,
    <<NArray(<<NArray(<<>>), NArray(<<NBool(TRUE)>>)>>), TRUE>> }

\* The branches: <<truthy, falsy>> or <<truthy>>.  $x shows the frame a
\* branch is given, $y := 1 (whose value is its input) the input.
TernaryBranches ==
  { <<NString(StrYes), NString(StrNo)>>,
    <<NVar("x"), NBind("y", NNumber(One))>>,
    <<NBind("y", NNumber(One))>> }

TernaryPrograms == {NTernary(<<c[1]>> \o b) : c \in CondCases, b \in TernaryBranches}

EvalTernary == \E n \in TernaryPrograms, i \in Inputs : Call("ternary", n, i, NoHash)

NextTernary == EvalBind \/ EvalTernary

SpecTernary == Init /\ [][NextTernary]_vars

-----------------------------------------------------------------------------
(* lhs op rhs for the equality and the relational operators               *)

\* The operand expressions, each with the value it evaluates to.
Operands ==
  { <<NVar("u"), Undefined>>, <<NNull, Null>>, <<NBool(TRUE), Bool(TRUE)>>,
    <<NNumber(0), Number(0)>>, <<NNumber(One), Number(One)>>, <<NNumber(One + 1), Number(One + 1)>>,
    <<NString(<<>>), String(<<>>)>>, <<NString(StrA), String(StrA)>>,
    <<NString(StrAB), String(StrAB)>>, <<NString(StrB), String(StrB)>>,
    <<NArray(<<NNumber(One)>>), Array(<<Number(One)>>, FALSE, TRUE, FALSE)>>,
    <<NObject(<<NString(StrA), NNumber(One)>>), Object(<<StrA>>, <<Number(One)>>)>> }

ComparePrograms == {NBinary(o, l[1], r[1]) : o \in EqOps \cup RelOps, l \in Operands, r \in Operands}

InitCompare == Ready(ComparePrograms, {Null}, {NoHash})

EvalEquality == node.op \in EqOps /\ Run("equality")

EvalRelational == node.op \in RelOps /\ Run("relational")

NextCompare == EvalEquality \/ EvalRelational

SpecCompare == InitCompare /\ [][NextCompare]_vars

-----------------------------------------------------------------------------
(* Object constructors { key: value, ... }                                 *)

\* ($t := null): a bind's value is its input, so this expression yields the
\* item (as a key) or the group's accumulated data (as a value).
ItemExpr == NBlock(<<NBind("t", NNull)>>)

\* (data ? "yes"): Undefined when the data is falsy.
YesIfData == NTernary(<<ItemExpr, NString(StrYes)>>)

KeyExprs == {ItemExpr, NString(StrA), NNumber(One)}

ValueExprs == {NVar("u"), NNumber(One), ItemExpr, YesIfData}

GroupPrograms ==
  {NObject(<<k, v>>) : k \in KeyExprs, v \in ValueExprs}
    \cup {NObject(<<k1, v1, k2, v2>>) : k1 \in KeyExprs, v1 \in ValueExprs, k2 \in KeyExprs, v2 \in ValueExprs}

StrArray(items) == Array([i \in 1..Len(items) |-> String(items[i])], FALSE, FALSE, FALSE)

GroupInputs ==
  {Undefined, String(StrA), String(<<>>), StrArray(<<>>), StrArray(<<StrA, StrB>>),
   StrArray(<<StrX, StrX>>), StrArray(<<<<>>, StrB, StrA>>)}

\* The iteration orders of a HashMap of up to MaxGroups groups.
HashOrders == {h \in [1..MaxGroups -> 1..MaxGroups] : \A i, j \in 1..MaxGroups : i # j => h[i] # h[j]}

InitGroup == Ready(GroupPrograms, GroupInputs, HashOrders)

EvalGroup == Run("group")

NextGroup == EvalGroup

SpecGroup == InitGroup /\ [][NextGroup]_vars

-----------------------------------------------------------------------------
(* Predicates and the closing normalization                                *)

\* $t := null: a bind's result is its input, so with this node the value the
\* predicates and the normalization work on is the input of the call.
Carrier == NBind("t", NNull)

\* The numeric predicates: every multiple of 1/Scale from -(MaxLen + 1) to
\* MaxLen + 1.
PredNums == {NNumber(n) : n \in (0 - (MaxLen + 1) * Scale)..((MaxLen + 1) * Scale)}

PredLists ==
  {<<>>} \cup {<<p>> : p \in PredNums}
    \cup {<<NNumber(0 - One), p>> : p \in {NNumber(0), NNumber(One), NNumber(0 - One)}}

\* One node of every kind evaluate supports, for the predicate [0].
KindNodes ==
  { NNull, NBool(TRUE), NString(StrA), NNumber(One), NBlock(<<NNumber(One)>>),
    NMinus(NNumber(One)), NArray(<<NNumber(One), NNumber(0)>>),
    NObject(<<NString(StrA), NNumber(One)>>), NBinary("Add", NNumber(One), NNumber(One)),
    NVar("u"), NTernary(<<NBool(TRUE), NNumber(One)>>) }

FilterPrograms ==
  {[WithPreds(Carrier, ps) EXCEPT !.keep_array = k] : ps \in PredLists, k \in BOOLEAN}
    \cup {[WithPreds(n, <<NNumber(0)>>) EXCEPT !.keep_array = k] : n \in KindNodes, k \in BOOLEAN}

NumArray(ns, seq, keep) == Array([i \in 1..Len(ns) |-> Number(Int2Num(ns[i]))], seq, FALSE, keep)

\* The values the predicates and the normalization are applied to: scalars,
\* literal arrays up to MaxLen long and engine-built sequences.
FilterInputs ==
  {Undefined, Number(Int2Num(7)), String(StrA), Object(<<StrA>>, <<Null>>)}
    \cup {NumArray([i \in 1..n |-> 10 * i], FALSE, FALSE) : n \in 0..MaxLen}
    \cup {Array(<<NumArray(<<1, 2>>, FALSE, FALSE), Number(Int2Num(3))>>, FALSE, FALSE, FALSE)}
    \cup {NumArray([i \in 1..n |-> i], TRUE, k) : n \in 0..2, k \in BOOLEAN}

InitFilter == Ready(FilterPrograms, FilterInputs, {NoHash})

EvalFiltered == Run("filter")

NextFilter == EvalFiltered

SpecFilter == InitFilter /\ [][NextFilter]_vars

-----------------------------------------------------------------------------
(* Parsing a op1 b op2 c                                                   *)

InfixKinds == DOMAIN LedNode

EndToken == Token("End")

\* The operands 2, 3 and 4.
OperandA == NumberToken(Int2Num(2))

OperandB == NumberToken(Int2Num(3))

OperandC == NumberToken(Int2Num(4))

\* a op1 b op2 c, and -a + b
TokenStreams ==
  {<<OperandA, Token(o1), OperandB, Token(o2), OperandC, EndToken>> : o1 \in InfixKinds, o2 \in InfixKinds}
    \cup {<<Token("Sub"), OperandA, Token("Add"), OperandB, EndToken>>}

InitParse ==
  /\ frames = <<EmptyFrame>>
  /\ pre = <<EmptyFrame>>
  /\ node = NNull
  /\ input = Undefined
  /\ hash = NoHash
  /\ raw = NoResult
  /\ out = NoResult
  /\ op = "ready"
  /\ tokens \in TokenStreams
  /\ tree = NoTree

\* parser.expression(0) on the token stream.
Parse ==
  /\ op = "ready"
  /\ op' = "parsed"
  /\ tree' = expression(tokens, 1, 0)
  /\ UNCHANGED <<frames, pre, node, input, hash, raw, out, tokens>>

\* The operators of a parsed tree.
RECURSIVE Operators(_)
Operators(n) ==
  IF Len(n.kids) = 0 THEN {}
  ELSE {n.kind} \cup UNION {Operators(n.kids[i]) : i \in 1..Len(n.kids)}

\* The parsed tree evaluated; the trees of exact arithmetic only.
EvalParsed ==
  /\ op = "parsed"
  /\ tree.ok
  /\ Operators(tree.node) \subseteq {"Add", "Subtract", "Multiply", "UnaryMinus"}
  /\ Returned("evaluated", process_ast(tree.node), Null, NoHash,
       evaluate(process_ast(tree.node), Null, frames, NoHash),
       evaluate_raw(process_ast(tree.node), Null, frames, NoHash))
  /\ UNCHANGED <<tokens, tree>>

NextParse == Parse \/ EvalParsed

SpecParse == InitParse /\ [][NextParse]_vars


\* Operands of a binary node that tell whether, and when, they were run.
\* $x: Undefined unless x is bound when it is evaluated.
LVarX == NVar("x")

\* $y := 1: leaves y bound in the current frame when it is evaluated.
LBindsY == NBind("y", NNumber(One))

\* -"a": fails with D1002 when it is evaluated.
LFails == NMinus(NString(StrA))

\* $: panics when it is evaluated.
LPanics == NVar("")

LeftOperands == {LVarX, LBindsY, LFails, LPanics}

\* $x := 1: binds x in the current frame and yields the input.
RBindsX == NBind("x", NNumber(One))

\* null < 1: fails with T2010.
RFails == NBinary("LessThan", NNull, NNumber(One))

RNumber == NNumber(One)

RightOperands == {RBindsX, RFails, RNumber}

OperandPrograms ==
  {NBinary(o, l, r) : o \in ArithOps \cup RelOps \cup EqOps \cup {"Bind"}, l \in LeftOperands, r \in RightOperands}

OperandInputs == {Undefined, Number(Int2Num(2)), String(StrA)}

InitOperands == Ready(OperandPrograms, OperandInputs, {NoHash})

\* evaluate_binary_op for an operator other than bind.
EvalOperands == node.op # "Bind" /\ Run("operands")

\* evaluate_binary_op for bind.
EvalBindOperand == node.op = "Bind" /\ Run("bindoperand")

NextOperands == EvalOperands \/ EvalBindOperand

SpecOperands == InitOperands /\ [][NextOperands]_vars

-----------------------------------------------------------------------------
(* Claims                                                                  *)

\* C1: for every input and every number v, the block ($x := v; $x + 1)
\* yields v + 1, and after it has returned $x looked up through the frame
\* that enclosed the block is what it was before the block (Undefined when
\* no enclosing frame bound it): the binding was written into the block's
\* own child frame and into no ancestor.
BlockThreading ==
  op = "block" =>
    \A v \in Nums :
      /\ node = BlockXPlus1(v) =>
           /\ out.ok
           /\ out.val = Number(v + One)
           /\ frames = pre
           /\ "x" \notin DOMAIN pre[1] => lookup(frames, "x") = <<FALSE, Undefined>>
      /\ node = BlockThenX(v) =>
           /\ out.ok
           /\ frames = pre
           /\ out.val = (IF "x" \in DOMAIN pre[1] THEN pre[1]["x"] ELSE Undefined)

\* C1 witness: ($x := 5; $x + 1) has returned 6 and $x is unbound outside.
BlockThreadingReached ==
  /\ op = "block"
  /\ node = BlockXPlus1(Int2Num(5))
  /\ out.val = Number(Int2Num(6))
  /\ input = String(StrA)
  /\ lookup(frames, "x") = <<FALSE, Undefined>>

\* The binding of name nearest to the current frame after the expressions of
\* a var program that precede the reference, given the root frame root.
NearestBinding(n, root) ==
  LET ref == n.kids[Len(n.kids)]
  IN IF n.kind = "Block" /\ Len(n.kids) = 2 /\ ref.name = "x" THEN Number(0)
     ELSE IF ref.name \in DOMAIN root THEN root[ref.name]
     ELSE Undefined

\* C2: evaluating a variable reference never fails: the empty name returns
\* the input unchanged, a non-empty name the binding of the nearest frame
\* that binds it, or Undefined when none does.
VarNeverFails ==
  op = "var" =>
    /\ out.ok
    /\ node.kind = "Var" /\ node.name = "" => out.val = input
    /\ node.kind = "Var" /\ node.name # "" =>
         out.val = (IF node.name \in DOMAIN pre[1] THEN pre[1][node.name] ELSE Undefined)
    /\ node.kind = "Block" => out.val = NearestBinding(node, pre[1])

\* C10: a ternary evaluates its truthy branch exactly when the boolean
\* coercion of the condition is true and otherwise its falsy branch
\* (Undefined without one), the branch being given the ternary's own input
\* and frame; Undefined, Null, false, 0, "" and [] are falsy and an array is
\* truthy iff some element is, recursively.
TernaryBranch ==
  op = "ternary" =>
    \A c \in CondCases :
      node.kids[1] = c[1] =>
        LET chosen == IF c[2] THEN 2 ELSE 3
            expected == IF chosen <= Len(node.kids)
                        THEN evaluate(node.kids[chosen], input, pre, NoHash)
                        ELSE Ok(Undefined, pre)
        IN /\ out = Strip(expected)
           /\ frames = expected.fr
           /\ node.kids[2] = NString(StrYes) =>
                out.val = (IF c[2] THEN String(StrYes) ELSE String(StrNo))

\* C10 witness: [] ? "yes" : "no" has evaluated to "no".
TernaryBranchReached ==
  /\ op = "ternary"
  /\ node = NTernary(<<NArray(<<>>), NString(StrYes), NString(StrNo)>>)
  /\ out.ok
  /\ out.val = String(StrNo)

\* The value the operand expression e evaluates to.
ValueOf(e) == (CHOOSE c \in Operands : c[1] = e)[2]

\* C7: for every value x, Undefined included, x = Undefined, Undefined = x,
\* x != Undefined and Undefined != x are the Bool false and never an error;
\* when neither operand is Undefined, = is structural equality and != is
\* its negation.
EqualityWithUndefined ==
  op = "equality" =>
    LET l == ValueOf(node.kids[1])
        r == ValueOf(node.kids[2])
    IN /\ out.ok
       /\ l = Undefined \/ r = Undefined => out.val = Bool(FALSE)
       /\ l # Undefined /\ r # Undefined =>
            out.val = Bool(IF node.op = "Equal" THEN l = r ELSE l # r)

\* C7 witness: Undefined != Undefined has evaluated to false.
EqualityWithUndefinedReached ==
  /\ op = "equality"
  /\ node = NBinary("NotEqual", NVar("u"), NVar("u"))
  /\ out.ok
  /\ out.val = Bool(FALSE)

\* The place of a string operand in the lexicographic order.
StrRank(s) == CASE s = <<>> -> 0 [] s = StrA -> 1 [] s = StrAB -> 2 [] s = StrB -> 3

\* The Bool a relational operator yields on two keys of the same order.
Related(o, l, r) ==
  CASE o = "LessThan" -> l < r
    [] o = "LessThanEqual" -> l <= r
    [] o = "GreaterThan" -> l > r
    [] o = "GreaterThanEqual" -> l >= r

\* What C8 says of the pairs of two numbers and of two strings.
RelationalSameType ==
  op = "relational" =>
    LET l == ValueOf(node.kids[1])
        r == ValueOf(node.kids[2])
    IN /\ l.t = "num" /\ r.t = "num" => out.ok /\ out.val = Bool(Related(node.op, l.n, r.n))
       /\ l.t = "str" /\ r.t = "str" =>
            out.ok /\ out.val = Bool(Related(node.op, StrRank(l.s), StrRank(r.s)))

GroupedItems(inp) ==
  IF inp.t # "arr" THEN <<inp>> ELSE IF Len(inp.items) = 0 THEN <<Undefined>> ELSE inp.items

\* The key the key expression k yields for an item.
KeyFor(k, item) == IF k = ItemExpr THEN item ELSE IF k = NString(StrA) THEN String(StrA) ELSE Number(One)

\* C3 as stated: a constructor with the single pair key: value, on an array
\* of two or more items that all yield the same key, raises no duplicate-key
\* error and returns the object with that one key, whose value is the items
\* merged in input order.
GroupingMergesSameKey ==
  (/\ op = "group"
   /\ Len(node.kids) = 2
   /\ node.kids[2] = ItemExpr
   /\ input.t = "arr"
   /\ Len(input.items) >= 2
   /\ \A i \in 1..Len(input.items) :
        KeyFor(node.kids[1], input.items[i]) = KeyFor(node.kids[1], input.items[1])
   /\ KeyFor(node.kids[1], input.items[1]).t = "str")
    => /\ out.ok
       /\ out.val.t = "obj"
       /\ out.val.keys = <<KeyFor(node.kids[1], input.items[1]).s>>
       /\ out.val.items[1].items = input.items

\* The <<item, pair>> productions of a constructor, in evaluation order.
Productions(n, inp) ==
  LET items == GroupedItems(inp)
      pairs == Len(n.kids) \div 2
  IN [q \in 1..(Len(items) * pairs) |->
        [item |-> items[((q - 1) \div pairs) + 1], pair |-> ((q - 1) % pairs) + 1]]

\* The value the value expression v yields for accumulated data of the
\* given items (one item: the item; more: their sequence).
ValueFor(v, items) ==
  CASE v = NVar("u") -> Undefined
    [] v = NNumber(One) -> Number(One)
    [] v = ItemExpr -> IF Len(items) = 1 THEN items[1] ELSE Array(items, TRUE, FALSE, FALSE)
    [] v = YesIfData -> IF \E i \in 1..Len(items) : items[i].t = "str" /\ items[i].s # <<>>
                        THEN String(StrYes) ELSE Undefined

\* C4: when the object constructor succeeds, no key of the returned object
\* maps to Undefined: a group whose value expression is Undefined on the
\* group's accumulated data is left out, and every other distinct key
\* appears exactly once, with that value.
GroupingOmitsUndefined ==
  op = "group" /\ out.ok =>
    LET prods == Productions(node, input)
        keyAt(q) == KeyFor(node.kids[2 * prods[q].pair - 1], prods[q].item).s
        produced == {keyAt(q) : q \in 1..Len(prods)}
        first(k) == CHOOSE q \in 1..Len(prods) : keyAt(q) = k /\ \A p \in 1..(q - 1) : keyAt(p) # k
        members(k) == SelectSeq(prods, LAMBDA x : KeyFor(node.kids[2 * x.pair - 1], x.item).s = k)
        data(k) == [q \in 1..Len(members(k)) |-> members(k)[q].item]
        value(k) == ValueFor(node.kids[2 * prods[first(k)].pair], data(k))
        at(k) == {i \in 1..Len(out.val.keys) : out.val.keys[i] = k}
    IN /\ out.val.t = "obj"
       /\ Len(out.val.keys) = Len(out.val.items)
       /\ \A i \in 1..Len(out.val.items) : out.val.items[i] # Undefined
       /\ \A i \in 1..Len(out.val.keys) : out.val.keys[i] \in produced
       /\ \A k \in produced :
            IF value(k) = Undefined THEN at(k) = {}
            ELSE Cardinality(at(k)) = 1 /\ \A i \in at(k) : out.val.items[i] = value(k)

\* C4 witness: { item: (data ? "yes") } on ["", "b", "a"] has left the key
\* "" out and kept the keys "b" and "a".
GroupingOmitsUndefinedReached ==
  /\ op = "group"
  /\ node = NObject(<<ItemExpr, YesIfData>>)
  /\ input = StrArray(<<<<>>, StrB, StrA>>)
  /\ out.ok
  /\ Len(out.val.keys) = 2
  /\ out.val.keys[1] = StrA

\* The element a numeric predicate p selects from a result r, as a sequence:
\* p floored, counted from the end when negative, indexes r (an array) or
\* the one-item list of r; an array element is the result itself, any other
\* element the sole item of a fresh sequence, no element the empty sequence.
Selected(r, p) ==
  LET i == CHOOSE k \in (0 - (MaxLen + 2))..(MaxLen + 2) : k * Scale <= p /\ p < (k + 1) * Scale
      elems == IF r.t = "arr" THEN r.items ELSE <<r>>
      index == IF i < 0 THEN i + Len(elems) ELSE i
  IN IF 0 <= index /\ index < Len(elems)
     THEN IF elems[index + 1].t = "arr" THEN elems[index + 1]
          ELSE Array(<<elems[index + 1]>>, TRUE, FALSE, FALSE)
     ELSE Array(<<>>, TRUE, FALSE, FALSE)

\* C5: a numeric predicate yields the element at the floored index, counted
\* from the end when negative (the length being 1 for a non-array result),
\* and the empty sequence for every out-of-range index, any index other than
\* 0 or -1 on a non-array result included.
FilterSelectsByIndex ==
  op = "filter" /\ node.kids = Carrier.kids /\ Len(node.preds) > 0 =>
    /\ raw.ok
    /\ Len(node.preds) = 1 => raw.val = Selected(input, node.preds[1].n)
    /\ Len(node.preds) = 2 =>
         raw.val = Selected(Selected(input, node.preds[1].n), node.preds[2].n)

\* C6: after a node's result is computed and its predicates ran, a
\* sequence-flagged array with no items becomes Undefined; one with exactly
\* one item becomes that item unless keep_singleton is set, which the node's
\* keep_array flag forces on, and then it stays a one-item array; one with
\* two or more items is returned with its items untouched; any other value
\* is returned unchanged.
SequenceNormalization ==
  op = "filter" /\ raw.ok =>
    LET r == raw.val
        isSeq == r.t = "arr" /\ r.seq
        kept == r.keep \/ node.keep_array
    IN /\ out.ok
       /\ ~isSeq => out.val = r
       /\ isSeq /\ Len(r.items) = 0 => out.val = Undefined
       /\ isSeq /\ Len(r.items) = 1 /\ ~kept => out.val = r.items[1]
       /\ isSeq /\ Len(r.items) = 1 /\ kept => out.val = Array(r.items, TRUE, r.cons, TRUE)
       /\ isSeq /\ Len(r.items) > 1 => out.val = Array(r.items, TRUE, r.cons, kept)

\* C6 witness: the scalar 7 wrapped by the predicate [0] as a one-item
\* sequence has been normalized back to 7.
SequenceNormalizationReached ==
  /\ op = "filter"
  /\ input = Number(Int2Num(7))
  /\ node = WithPreds(Carrier, <<NNumber(0)>>)
  /\ raw.val = Array(<<Number(Int2Num(7))>>, TRUE, FALSE, FALSE)
  /\ out.val = Number(Int2Num(7))

\* The binding powers C9 gives: multiplicative 60, additive and concat 50,
\* equality, relational, membership and chain 40, and 30, or 25 (and the
\* path separator, which C9 leaves unnamed, at the table's 75).
ClaimedPower(kind) ==
  CASE kind \in {"Mul", "Div", "Mod"} -> 60
    [] kind \in {"Add", "Sub", "Ampersand"} -> 50
    [] kind \in {"Equ", "NotEqual", "LeftCaret", "RightCaret", "LessEqual", "GreaterEqual", "In", "ChainFunction"} -> 40
    [] kind = "And" -> 30
    [] kind = "Or" -> 25
    [] kind = "Period" -> 75

\* The leaf a number token parses to.
NumberLeaf(t) == [PNode("Number", <<>>) EXCEPT !.n = t.n]

\* C9: for a op1 b op2 c over the operators with an infix rule, the parser
\* builds a op1 (b op2 c) exactly when op2 binds tighter than op1 and
\* (a op1 b) op2 c otherwise (equal powers associate to the left), with the
\* powers multiplicative 60 > additive/concat 50 > equality, relational,
\* membership, chain 40 > and 30 > or 25; so 2 + 3 * 4 evaluates to 14, and
\* -a + b parses as (-a) + b.
PrecedenceClimbing ==
  op \in {"parsed", "evaluated"} =>
    /\ tree.ok
    /\ tree.pos = Len(tokens)
    /\ Len(tokens) = 6 =>
         LET a == NumberLeaf(tokens[1])
             b == NumberLeaf(tokens[3])
             c == NumberLeaf(tokens[5])
             o1 == tokens[2].kind
             o2 == tokens[4].kind
         IN tree.node = IF ClaimedPower(o2) > ClaimedPower(o1)
                        THEN PNode(LedNode[o1], <<a, PNode(LedNode[o2], <<b, c>>)>>)
                        ELSE PNode(LedNode[o2], <<PNode(LedNode[o1], <<a, b>>), c>>)
    /\ Len(tokens) = 5 =>
         tree.node = PNode("Add", <<PNode("UnaryMinus", <<NumberLeaf(tokens[2])>>), NumberLeaf(tokens[4])>>)
    /\ op = "evaluated" /\ Len(tokens) = 6 /\ tokens[2].kind = "Add" /\ tokens[4].kind = "Mul" =>
         out.ok /\ out.val = Number(Int2Num(2) + Int2Num(3 * 4))
    /\ op = "evaluated" /\ Len(tokens) = 5 =>
         out.ok /\ out.val = Number(Int2Num(3) - Int2Num(2))

\* C9 witness: 2 + 3 * 4 has been parsed as 2 + (3 * 4) and evaluated to 14.
PrecedenceClimbingReached ==
  /\ op = "evaluated"
  /\ tokens = <<OperandA, Token("Add"), OperandB, Token("Mul"), OperandC, EndToken>>
  /\ tree.node.kind = "Add"
  /\ out.val = Number(Int2Num(14))

\* The distinct elements of a sequence, each at its first occurrence.
RECURSIVE FirstSeen(_, _)
FirstSeen(s, i) ==
  IF i > Len(s) THEN <<>>
  ELSE IF \E p \in 1..(i - 1) : s[p] = s[i] THEN FirstSeen(s, i + 1)
  ELSE <<s[i]>> \o FirstSeen(s, i + 1)

\* The keys produced while iterating the items and, per item, the pairs.
ProducedKeys(n, inp) ==
  [q \in 1..Len(Productions(n, inp)) |->
     KeyFor(n.kids[2 * Productions(n, inp)[q].pair - 1], Productions(n, inp)[q].item).s]

\* C11 as stated: when the object constructor succeeds with two or more
\* distinct keys, the keys of the returned object are in the order in which
\* they were first produced, whatever order the HashMap of groups iterates in
\* (so two evaluations of the same node on the same input agree).
FirstSeenKeyOrder ==
  (op = "group" /\ out.ok /\ Len(out.val.keys) >= 2) =>
    out.val.keys =
      SelectSeq(FirstSeen(ProducedKeys(node, input), 1),
                LAMBDA k : \E i \in 1..Len(out.val.keys) : out.val.keys[i] = k)


\* C12: the right operand of a binary operator is evaluated first.  For an
\* operator other than bind: when the right operand fails, its error is the
\* one returned and the left operand has not run (no binding of its own, no
\* error or panic of its own); a binding the right operand writes into the
\* current frame is the value the left operand $x reads.  For bind the left
\* operand never runs: the call yields the input, binds the right operand's
\* value when the left operand is a variable, and changes nothing else.
RightOperandFirst ==
  op \in {"operands", "bindoperand"} =>
    /\ (node.op # "Bind" /\ node.kids[2] = RFails) =>
         /\ ~out.ok
         /\ out.err = "T2010"
         /\ out.eop = "LessThan"
         /\ frames = pre
    /\ (node.op # "Bind" /\ node.kids[2] = RBindsX) =>
         /\ lookup(frames, "x") = <<TRUE, Number(One)>>
         /\ (node.kids[1] = LVarX /\ node.op \in ArithOps) =>
              /\ out.err # "T2001"
              /\ input.t = "num" => out.ok
              /\ input.t # "num" => out.err = "T2002"
              /\ (node.op = "Add" /\ input.t = "num") => out.val = Number(One + input.n)
         /\ (node.kids[1] = LVarX /\ node.op = "Equal" /\ input # Undefined) =>
              out.ok /\ out.val = Bool(input = Number(One))
    /\ (node.op = "Bind" /\ node.kids[2] # RFails) =>
         /\ out.ok
         /\ out.val = input
         /\ ~lookup(frames, "y")[1]
         /\ frames =
              LET after == IF node.kids[2] = RBindsX THEN bind(pre, "x", Number(One)) ELSE pre
                  value == IF node.kids[2] = RBindsX THEN input ELSE Number(One)
              IN IF node.kids[1].kind = "Var" THEN bind(after, node.kids[1].name, value) ELSE after

\* C12 witness: -"a" < (null < 1), both operands of which fail, has failed
\* with the right operand's T2010.
RightOperandFirstReached ==
  /\ op = "operands"
  /\ node = NBinary("LessThan", LFails, RFails)
  /\ ~out.ok
  /\ out.err = "T2010"

====
